---- MODULE Spec2Model ----
\* A model of the elevenlabs_ttv client: the two request builders, their
\* finalization (execute), the transport step of each call and the error
\* conversion, translated from src/src/lib.rs, src/src/types.rs and
\* src/src/error.rs.
EXTENDS Integers, Sequences, FiniteSets, TLC

VARIABLES clients, made, tasks, nExecute, nSent, converted, rendered, ready

vars == <<clients, made, tasks, nExecute, nSent, converted, rendered, ready>>

\* The values the pure functions were last applied to, with their results.
applied == <<converted, rendered, ready>>

\* ---------------------------------------------------------------- bounds

\* The number of setter calls made on one builder before it is finalized.
MaxSetterCalls == 2

\* The number of builders finalized in one run.
MaxCalls == 2

\* ---------------------------------------------------------------- Option<T>

None == [some |-> FALSE]

Some(x) == [some |-> TRUE, val |-> x]

\* Option::or
Or(a, b) == IF a.some THEN a ELSE b

\* Option::unwrap_or_else
UnwrapOrElse(a, d) == IF a.some THEN a.val ELSE d

\* Result<T, E>
Ok(x) == [ok |-> TRUE, val |-> x]

Err(e) == [ok |-> FALSE, err |-> e]

\* ---------------------------------------------------------------- inputs

ClientIds == {"c1"}

TaskIds == {"t1"}

ApiKeys == {"k"}

BaseUrls == {"http://localhost:8080"}

VoiceDescriptions == {"X"}

VoiceNames == {"Jack"}

GeneratedVoiceIds == {"abc123"}

OutputFormats == {"mp3_44100_128", "pcm_16000"}

ModelIds == {"eleven_ttv_v3", "model-456"}

Texts == {"short", "a sample text"}

\* f32 values are written as their decimal text; some lie outside the
\* documented ranges.
Loudnesses == {"1.0", "2.5"}

Seeds == {0, 2147483647}

GuidanceScales == {20, 101}

SessionIds == {"session-1"}

IterationIds == {"iteration-1"}

Qualities == {"1.0", "-3.0"}

ReferenceAudios == {"QUJD"}

PromptStrengths == {"0.25", "7.0"}

LabelTexts == {"voice-labels", "other-labels"}

PlayedIds == {"p1,p2"}

\* ---------------------------------------------------------------- client

PRODUCTION_BASE_URL == "https://api.elevenlabs.io/v1"

ELEVEN_MULTILINGUAL_TTV_V2 == "eleven_multilingual_ttv_v2"

\* A constructor that points at another API root.
NewWithOtherRoot(api_key) ==
    [api_key |-> api_key, base_url |-> "https://api.elevenlabs.io/v2"]

new(api_key) == [api_key |-> api_key, base_url |-> PRODUCTION_BASE_URL]

with_base_url(api_key, base_url) == [api_key |-> api_key, base_url |-> base_url]

\* ---------------------------------------------------------------- Design Voice builder

TextToVoiceDesignVoiceBuilder_new(client, voice_description) ==
    [ client |-> client,
      voice_description |-> voice_description,
      output_format |-> None,
      text |-> None,
      model_id |-> None,
      auto_generate_text |-> None,
      loudness |-> None,
      seed |-> None,
      guidance_scale |-> None,
      stream_previews |-> None,
      remixing_session_id |-> None,
      remixing_session_iteration_id |-> None,
      quality |-> None,
      reference_audio_base64 |-> None,
      prompt_strength |-> None ]

design_voice(client, voice_description) ==
    TextToVoiceDesignVoiceBuilder_new(client, voice_description)

output_format(self, v) == [self EXCEPT !.output_format = Some(v)]

\* A setter that keeps the text set first.
TextKeepsFirst(self, v) ==
    IF self.text.some THEN self ELSE [self EXCEPT !.text = Some(v)]

text(self, v) == [self EXCEPT !.text = Some(v)]

\* A setter that also resets the text.
ModelResetsText(self, v) == [self EXCEPT !.model_id = Some(v), !.text = None]

model(self, v) == [self EXCEPT !.model_id = Some(v)]

auto_generate_text(self, v) == [self EXCEPT !.auto_generate_text = Some(v)]

loudness(self, v) == [self EXCEPT !.loudness = Some(v)]

seed(self, v) == [self EXCEPT !.seed = Some(v)]

guidance_scale(self, v) == [self EXCEPT !.guidance_scale = Some(v)]

stream_previews(self, v) == [self EXCEPT !.stream_previews = Some(v)]

remixing_session_id(self, v) == [self EXCEPT !.remixing_session_id = Some(v)]

remixing_session_iteration_id(self, v) ==
    [self EXCEPT !.remixing_session_iteration_id = Some(v)]

quality(self, v) == [self EXCEPT !.quality = Some(v)]

reference_audio_base64(self, v) == [self EXCEPT !.reference_audio_base64 = Some(v)]

prompt_strength(self, v) == [self EXCEPT !.prompt_strength = Some(v)]

\* A defaulting rule that ignores whether a text was set.
AutoGenerateTextAlwaysTrue(self) == Or(self.auto_generate_text, Some(TRUE))

\* A defaulting rule that never asks for a generated text.
AutoGenerateTextNoDefault(self) == Or(self.auto_generate_text, None)

\* The auto_generate_text of the request: the explicit value, else true when
\* no text was set, else unset.
AutoGenerateTextOrDefault(self) ==
    Or(self.auto_generate_text, IF self.text.some THEN None ELSE Some(TRUE))

\* The request value built by TextToVoiceDesignVoiceBuilder::execute.
DesignVoiceRequest(self) ==
    [ voice_description |-> self.voice_description,
      model_id |-> Some(UnwrapOrElse(self.model_id, ELEVEN_MULTILINGUAL_TTV_V2)),
      output_format |-> None,
      text |-> Or(self.text, None),
      auto_generate_text |-> AutoGenerateTextOrDefault(self),
      loudness |-> Or(self.loudness, Some("0.5")),
      seed |-> Or(self.seed, None),
      guidance_scale |-> Or(self.guidance_scale, Some(5)),
      stream_previews |-> Or(self.stream_previews, Some(FALSE)),
      remixing_session_id |-> Or(self.remixing_session_id, None),
      remixing_session_iteration_id |-> Or(self.remixing_session_iteration_id, None),
      quality |-> Or(self.quality, None),
      reference_audio_base64 |-> Or(self.reference_audio_base64, None),
      prompt_strength |-> Or(self.prompt_strength, None) ]

\* ---------------------------------------------------------------- Create Voice builder

TextToVoiceCreateVoiceBuilder_new(client, voice_name, voice_description, generated_voice_id) ==
    [ client |-> client,
      voice_name |-> voice_name,
      voice_description |-> voice_description,
      generated_voice_id |-> generated_voice_id,
      labels |-> None,
      played_not_selected_voice_ids |-> None ]

create_voice(client, voice_name, voice_description, generated_voice_id) ==
    TextToVoiceCreateVoiceBuilder_new(client, voice_name, voice_description,
                                      generated_voice_id)

labels(self, v) == [self EXCEPT !.labels = Some(v)]

played_not_selected_voice_ids(self, v) ==
    [self EXCEPT !.played_not_selected_voice_ids = Some(v)]

\* The request value built by TextToVoiceCreateVoiceBuilder::execute.
CreateVoiceRequest(self) ==
    [ voice_name |-> self.voice_name,
      generated_voice_id |-> self.generated_voice_id,
      voice_description |-> self.voice_description,
      labels |-> Or(self.labels, None),
      played_not_selected_voice_ids |-> Or(self.played_not_selected_voice_ids, None) ]

\* ---------------------------------------------------------------- serialization

\* serde_json renders Option::None as null and Option::Some(x) as x.
JNull == [t |-> "null"]

JValue(x) == [t |-> "value", v |-> x]

SerializeOption(o) == IF o.some THEN JValue(o.val) ELSE JNull

\* #[derive(Serialize)] of TTVDesignVoiceRequest: one key per field, in field
\* order, except output_format, which is #[serde(skip_serializing)].
SerializeDesignVoiceRequest(request) ==
    [ voice_description |-> JValue(request.voice_description),
      model_id |-> SerializeOption(request.model_id),
      text |-> SerializeOption(request.text),
      auto_generate_text |-> SerializeOption(request.auto_generate_text),
      loudness |-> SerializeOption(request.loudness),
      seed |-> SerializeOption(request.seed),
      guidance_scale |-> SerializeOption(request.guidance_scale),
      stream_previews |-> SerializeOption(request.stream_previews),
      remixing_session_id |-> SerializeOption(request.remixing_session_id),
      remixing_session_iteration_id |->
          SerializeOption(request.remixing_session_iteration_id),
      quality |-> SerializeOption(request.quality),
      reference_audio_base64 |-> SerializeOption(request.reference_audio_base64),
      prompt_strength |-> SerializeOption(request.prompt_strength) ]

\* #[derive(Serialize)] of TTVCreateVoiceRequest.
SerializeCreateVoiceRequest(request) ==
    [ voice_name |-> JValue(request.voice_name),
      voice_description |-> JValue(request.voice_description),
      generated_voice_id |-> JValue(request.generated_voice_id),
      labels |-> SerializeOption(request.labels),
      played_not_selected_voice_ids |->
          SerializeOption(request.played_not_selected_voice_ids) ]

\* ---------------------------------------------------------------- the HTTP request sent

\* A URL built with another default output format.
DesignVoiceUrlOtherDefault(self, request) ==
    LET url == self.base_url \o "/text-to-voice/design"
        fmt == UnwrapOrElse(request.output_format, "mp3_22050_32")
    IN  [path |-> url, query |-> << <<"output_format", fmt>> >>]

\* A URL is its text before the query and the sequence of its query pairs.
DesignVoiceUrl(self, request) ==
    LET url == self.base_url \o "/text-to-voice/design"
        fmt == UnwrapOrElse(request.output_format, "mp3_44100_128")
    IN  [path |-> url, query |-> << <<"output_format", fmt>> >>]

CreateVoiceUrl(self) ==
    [path |-> self.base_url \o "/text-to-voice", query |-> << >>]

\* Headers built from a key shared by every client.
HeadersSharedKey(self) ==
    ("xi-api-key" :> "key-1") @@ ("Content-Type" :> "application/json")

\* .header("xi-api-key", &self.api_key).header("Content-Type", "application/json")
Headers(self) ==
    ("xi-api-key" :> self.api_key) @@ ("Content-Type" :> "application/json")

\* execute_design_voice up to its await: the POST handed to the transport.
DesignVoicePost(self, request) ==
    [ method |-> "POST",
      url |-> DesignVoiceUrl(self, request),
      headers |-> Headers(self),
      json |-> SerializeDesignVoiceRequest(request) ]

\* execute_create_voice up to its await.
CreateVoicePost(self, request) ==
    [ method |-> "POST",
      url |-> CreateVoiceUrl(self),
      headers |-> Headers(self),
      json |-> SerializeCreateVoiceRequest(request) ]

\* The value of a query parameter of a URL, None when the URL has none.
QueryParam(url, name) ==
    IF \E i \in 1..Len(url.query) : url.query[i][1] = name
    THEN Some(url.query[CHOOSE i \in 1..Len(url.query) : url.query[i][1] = name][2])
    ELSE None

\* The text of a URL: its path, then "?name=value" for its query pair.
UrlText(url) ==
    IF Len(url.query) = 0 THEN url.path
    ELSE url.path \o "?" \o url.query[1][1] \o "=" \o url.query[1][2]

\* ---------------------------------------------------------------- what the transport returns

TextBody == "Too many requests"

DesignOkBody == "{\"previews\":[],\"text\":\"hello\"}"

CreateOkBody == "{\"voice_id\":\"v1\"}"

Bodies == {TextBody, DesignOkBody, CreateOkBody}

ResponseStatuses == {200, 201, 400, 401, 402, 429, 500}

RetryAfters == {None, Some(30)}

\* A response: its status, the body the server sent, whether reading the body
\* succeeds, and the Retry-After header if the server sent one.
Responses ==
    { r \in [status : ResponseStatuses, body : Bodies, body_ok : BOOLEAN,
             retry_after : RetryAfters] :
        /\ r.retry_after.some => r.status = 429
        /\ ~r.body_ok => r.body = TextBody }

\* A reqwest::Error: the status it carries, if any, and its text. retry_after
\* is the Retry-After header of the response the error was made from; the
\* error value gives no access to it.
ErrorStatuses == 400..599

ReqwestErrors ==
    { e \in [status : {None} \cup {Some(s) : s \in ErrorStatuses},
             retry_after : RetryAfters,
             text : {"error sending request", "HTTP status error"}] :
        /\ e.retry_after.some => e.status.some
        /\ e.status.some <=> e.text = "HTTP status error" }

\* send() fails before any response is obtained: the error has no status.
SendErrors == { e \in ReqwestErrors : ~e.status.some }

BodyReadError == [status |-> None, retry_after |-> None, text |-> "error reading response body"]

DecodeError == [status |-> None, retry_after |-> None, text |-> "error decoding response body"]

\* ---------------------------------------------------------------- error conversion

\* A conversion that reports an error without status as an API error.
FromNoStatusAsApiError(error) ==
    IF error.status.some
    THEN [kind |-> "ApiError", status |-> error.status.val, message |-> error.text]
    ELSE [kind |-> "ApiError", status |-> 0, message |-> error.text]

\* A conversion with the arms of 401 and 402 exchanged.
FromArmsExchanged(error) ==
    IF error.status.some
    THEN LET status_code == error.status.val IN
         CASE status_code = 402 ->
                [kind |-> "AuthenticationError", message |-> "Invalid API key"]
           [] status_code = 429 ->
                [kind |-> "RateLimitError", retry_after |-> None,
                 message |-> "Too many requests"]
           [] status_code = 401 ->
                [kind |-> "QuotaExceededError", message |-> "Insufficient credits"]
           [] OTHER ->
                [kind |-> "ApiError", status |-> status_code, message |-> error.text]
    ELSE [kind |-> "RequestError", source |-> error]

\* impl From<reqwest::Error> for ElevenLabsTTVError
from(error) ==
    IF error.status.some
    THEN LET status_code == error.status.val IN
         CASE status_code = 401 ->
                [kind |-> "AuthenticationError", message |-> "Invalid API key"]
           [] status_code = 429 ->
                [kind |-> "RateLimitError", retry_after |-> None,
                 message |-> "Too many requests"]
           [] status_code = 402 ->
                [kind |-> "QuotaExceededError", message |-> "Insufficient credits"]
           [] OTHER ->
                [kind |-> "ApiError", status |-> status_code, message |-> error.text]
    ELSE [kind |-> "RequestError", source |-> error]

\* ---------------------------------------------------------------- response handling

\* StatusCode::is_success
is_success(status) == 200 <= status /\ status <= 299

\* The body text dropped.
TextDropped(response) == ""

\* response.text().await.unwrap_or_default()
TextOrDefault(response) == IF response.body_ok THEN response.body ELSE ""

\* serde_json on the bodies of this model: the object a body parses to.
JsonParse(body) ==
    CASE body = DesignOkBody -> Some([previews |-> << >>, text |-> "hello"])
      [] body = CreateOkBody -> Some([voice_id |-> "v1"])
      [] OTHER -> None

\* A decoder that fills in missing fields instead of failing.
DeserializeDesignVoiceResponseDefaulting(obj) ==
    Ok([ previews |-> IF "previews" \in DOMAIN obj THEN obj.previews ELSE << >>,
         text |-> IF "text" \in DOMAIN obj THEN obj.text ELSE "" ])

\* #[derive(Deserialize)] of TTVDesignVoiceResponse: both fields are required.
DeserializeDesignVoiceResponse(obj) ==
    IF {"previews", "text"} \subseteq DOMAIN obj
    THEN Ok([previews |-> obj.previews, text |-> obj.text])
    ELSE Err(DecodeError)

\* An optional field of a decoded object: None when the key is missing.
OptionalField(obj, key) == IF key \in DOMAIN obj THEN Some(obj[key]) ELSE None

\* #[derive(Deserialize)] of TTVCreateVoiceResponse: voice_id is required and
\* every other field is an Option (name, voice_verification, is_legacy and
\* is_mixed stand for the twenty-two of them).
DeserializeCreateVoiceResponse(obj) ==
    IF "voice_id" \in DOMAIN obj
    THEN Ok([ voice_id |-> obj.voice_id,
              name |-> OptionalField(obj, "name"),
              voice_verification |-> OptionalField(obj, "voice_verification"),
              is_legacy |-> OptionalField(obj, "is_legacy"),
              is_mixed |-> OptionalField(obj, "is_mixed") ])
    ELSE Err(DecodeError)

\* response.json::<TTVDesignVoiceResponse>().await
JsonDesignVoiceResponse(response) ==
    IF ~response.body_ok THEN Err(BodyReadError)
    ELSE IF ~JsonParse(response.body).some THEN Err(DecodeError)
    ELSE DeserializeDesignVoiceResponse(JsonParse(response.body).val)

\* response.json::<TTVCreateVoiceResponse>().await
JsonCreateVoiceResponse(response) ==
    IF ~response.body_ok THEN Err(BodyReadError)
    ELSE IF ~JsonParse(response.body).some THEN Err(DecodeError)
    ELSE DeserializeCreateVoiceResponse(JsonParse(response.body).val)

\* execute_design_voice from its await on: sent is what send().await gave,
\* Ok(response) or Err(reqwest error).
execute_design_voice(sent) ==
    IF ~sent.ok THEN Err(from(sent.err))
    ELSE LET response == sent.val IN
         IF ~is_success(response.status)
         THEN Err([kind |-> "ApiError", status |-> response.status,
                   message |-> TextOrDefault(response)])
         ELSE LET parse_response == JsonDesignVoiceResponse(response) IN
              IF parse_response.ok THEN Ok(parse_response.val)
              ELSE Err([kind |-> "ParseError", source |-> parse_response.err])

\* execute_create_voice from its await on.
execute_create_voice(sent) ==
    IF ~sent.ok THEN Err(from(sent.err))
    ELSE LET response == sent.val IN
         IF ~is_success(response.status)
         THEN Err([kind |-> "ApiError", status |-> response.status,
                   message |-> TextOrDefault(response)])
         ELSE LET parse_response == JsonCreateVoiceResponse(response) IN
              IF parse_response.ok THEN Ok(parse_response.val)
              ELSE Err([kind |-> "ParseError", source |-> parse_response.err])

\* ---------------------------------------------------------------- state

\* A task is one caller: it starts a builder from a client, calls setters,
\* finalizes (the request is sent and the task awaits), and gets the result.
\* builder, request and post are kept after the builder is consumed, to relate
\* the result to what was set.
IdleTask ==
    [ pc |-> "idle", kind |-> "none", builder |-> None, nset |-> 0,
      request |-> None, post |-> None, response |-> None, sent |-> None,
      result |-> None ]

\* Nothing was finalized or sent, and no pure function was applied.
InitRest ==
    /\ nExecute = 0
    /\ nSent = 0
    /\ converted = None
    /\ rendered = None
    /\ ready = None

\* made[c] records the constructor call that made client c.
Init ==
    /\ clients = [c \in ClientIds |-> None]
    /\ made = [c \in ClientIds |-> None]
    /\ tasks = [t \in TaskIds |-> IdleTask]
    /\ InitRest

\* ---------------------------------------------------------------- actions

\* ElevenLabsTTVClient::new
NewClient(c) ==
    /\ ~clients[c].some
    /\ \E api_key \in ApiKeys :
          /\ clients' = [clients EXCEPT ![c] = Some(new(api_key))]
          /\ made' = [made EXCEPT ![c] = Some([ctor |-> "new", api_key |-> api_key])]
    /\ UNCHANGED <<tasks, nExecute, nSent, applied>>

\* ElevenLabsTTVClient::with_base_url
WithBaseUrl(c) ==
    /\ ~clients[c].some
    /\ \E api_key \in ApiKeys, base_url \in BaseUrls :
          /\ clients' = [clients EXCEPT ![c] = Some(with_base_url(api_key, base_url))]
          /\ made' = [made EXCEPT ![c] = Some([ctor |-> "with_base_url",
                                               api_key |-> api_key,
                                               base_url |-> base_url])]
    /\ UNCHANGED <<tasks, nExecute, nSent, applied>>

StartBuilder(t, kind, builder) ==
    /\ tasks[t].pc \in {"idle", "done"}
    /\ tasks' = [tasks EXCEPT ![t] =
                    [IdleTask EXCEPT !.pc = "building", !.kind = kind,
                                     !.builder = builder]]
    /\ UNCHANGED <<clients, made, nExecute, nSent, applied>>

\* ElevenLabsTTVClient::design_voice
DesignVoice(t, c) ==
    /\ clients[c].some
    /\ \E voice_description \in VoiceDescriptions :
          StartBuilder(t, "design", design_voice(clients[c].val, voice_description))

\* ElevenLabsTTVClient::create_voice
CreateVoice(t, c) ==
    /\ clients[c].some
    /\ \E voice_name \in VoiceNames, voice_description \in VoiceDescriptions,
          generated_voice_id \in GeneratedVoiceIds :
          StartBuilder(t, "create",
                       create_voice(clients[c].val, voice_name, voice_description,
                                    generated_voice_id))

\* A setter call: the builder is replaced by the one the setter returns.
SetterCall(t, kind, builder) ==
    /\ tasks[t].pc = "building"
    /\ tasks[t].kind = kind
    /\ tasks[t].nset < MaxSetterCalls
    /\ tasks' = [tasks EXCEPT ![t].builder = builder, ![t].nset = @ + 1]
    /\ UNCHANGED <<clients, made, nExecute, nSent, applied>>

SetOutputFormat(t) ==
    \E v \in OutputFormats : SetterCall(t, "design", output_format(tasks[t].builder, v))

SetText(t) ==
    \E v \in Texts : SetterCall(t, "design", text(tasks[t].builder, v))

SetModel(t) ==
    \E v \in ModelIds : SetterCall(t, "design", model(tasks[t].builder, v))

SetAutoGenerateText(t) ==
    \E v \in BOOLEAN : SetterCall(t, "design", auto_generate_text(tasks[t].builder, v))

SetLoudness(t) ==
    \E v \in Loudnesses : SetterCall(t, "design", loudness(tasks[t].builder, v))

SetSeed(t) ==
    \E v \in Seeds : SetterCall(t, "design", seed(tasks[t].builder, v))

SetGuidanceScale(t) ==
    \E v \in GuidanceScales : SetterCall(t, "design", guidance_scale(tasks[t].builder, v))

SetStreamPreviews(t) ==
    \E v \in BOOLEAN : SetterCall(t, "design", stream_previews(tasks[t].builder, v))

SetRemixingSessionId(t) ==
    \E v \in SessionIds :
        SetterCall(t, "design", remixing_session_id(tasks[t].builder, v))

SetRemixingSessionIterationId(t) ==
    \E v \in IterationIds :
        SetterCall(t, "design", remixing_session_iteration_id(tasks[t].builder, v))

SetQuality(t) ==
    \E v \in Qualities : SetterCall(t, "design", quality(tasks[t].builder, v))

SetReferenceAudioBase64(t) ==
    \E v \in ReferenceAudios :
        SetterCall(t, "design", reference_audio_base64(tasks[t].builder, v))

SetPromptStrength(t) ==
    \E v \in PromptStrengths :
        SetterCall(t, "design", prompt_strength(tasks[t].builder, v))

SetLabels(t) ==
    \E v \in LabelTexts : SetterCall(t, "create", labels(tasks[t].builder, v))

SetPlayedNotSelectedVoiceIds(t) ==
    \E v \in PlayedIds :
        SetterCall(t, "create", played_not_selected_voice_ids(tasks[t].builder, v))

\* A finalize that checks the documented range of loudness and returns
\* ValidationError without sending when the value lies outside it.
ExecuteDesignVoiceValidating(t) ==
    /\ tasks[t].pc = "building"
    /\ tasks[t].kind = "design"
    /\ nExecute < MaxCalls
    /\ LET self == tasks[t].builder
           request == DesignVoiceRequest(self)
       IN  IF self.loudness = Some("2.5")
           THEN /\ tasks' = [tasks EXCEPT
                                ![t].pc = "done",
                                ![t].request = request,
                                ![t].sent = Err([status |-> None, retry_after |-> None,
                                                 text |-> "not sent"]),
                                ![t].result = Err([kind |-> "ValidationError",
                                                   message |-> "loudness out of range"])]
                /\ nSent' = nSent
           ELSE /\ tasks' = [tasks EXCEPT
                                ![t].pc = "awaiting",
                                ![t].request = request,
                                ![t].post = DesignVoicePost(self.client, request)]
                /\ nSent' = nSent + 1
    /\ nExecute' = nExecute + 1
    /\ UNCHANGED <<clients, made, applied>>

\* TextToVoiceDesignVoiceBuilder::execute up to the await of send(): the
\* request is built from the builder and posted with the builder's client,
\* by the one send() of execute_design_voice.
ExecuteDesignVoice(t) ==
    /\ tasks[t].pc = "building"
    /\ tasks[t].kind = "design"
    /\ nExecute < MaxCalls
    /\ LET self == tasks[t].builder
           request == DesignVoiceRequest(self)
       IN  tasks' = [tasks EXCEPT ![t].pc = "awaiting",
                                  ![t].request = request,
                                  ![t].post = DesignVoicePost(self.client, request)]
    /\ nExecute' = nExecute + 1
    /\ nSent' = nSent + 1
    /\ UNCHANGED <<clients, made, applied>>

\* TextToVoiceCreateVoiceBuilder::execute up to the await of send().
ExecuteCreateVoice(t) ==
    /\ tasks[t].pc = "building"
    /\ tasks[t].kind = "create"
    /\ nExecute < MaxCalls
    /\ LET self == tasks[t].builder
           request == CreateVoiceRequest(self)
       IN  tasks' = [tasks EXCEPT ![t].pc = "awaiting",
                                  ![t].request = request,
                                  ![t].post = CreateVoicePost(self.client, request)]
    /\ nExecute' = nExecute + 1
    /\ nSent' = nSent + 1
    /\ UNCHANGED <<clients, made, applied>>

\* A call that posts its request once more when it is answered 429 or when
\* send() fails.
ResendsOnFailure(sent) ==
    IF ~sent.ok \/ sent.val.status = 429 THEN 1 ELSE 0

\* The requests a call sends after send().await has returned: none, the code
\* after the await has no loop and no second send().
Resends(sent) == 0

\* What send().await gives of a response: the status line and the headers.
\* The body is read by a second await.
ResponseHead(response) ==
    [status |-> response.status, retry_after |-> response.retry_after]

\* send().await gives a response; the call goes on to its second await, the
\* body read: response.text().await on a non-2xx status,
\* response.json::<T>().await on a 2xx status.
Receive(t, head) ==
    /\ tasks[t].pc = "awaiting"
    /\ tasks' = [tasks EXCEPT ![t].pc = "reading", ![t].response = head]
    /\ UNCHANGED <<clients, made, nExecute, nSent, applied>>

Respond(t) == \E response \in Responses : Receive(t, ResponseHead(response))

\* The call returns: after the body read when send() gave a response (sent is
\* Ok of the response with its body), at once when send() failed (send().await?).
Return(t, sent) ==
    /\ tasks[t].pc = (IF sent.ok THEN "reading" ELSE "awaiting")
    /\ sent.ok => ResponseHead(sent.val) = tasks[t].response
    /\ tasks' = [tasks EXCEPT
                    ![t].pc = "done",
                    ![t].sent = sent,
                    ![t].result = IF tasks[t].kind = "design"
                                  THEN execute_design_voice(sent)
                                  ELSE execute_create_voice(sent)]
    /\ nSent' = nSent + Resends(sent)
    /\ UNCHANGED <<clients, made, nExecute, applied>>

\* The await of the body read ends, with the body or with a read error.
ReadBody(t) == \E response \in Responses : Return(t, Ok(response))

\* send().await fails: no response is obtained.
SendFails(t) == \E error \in SendErrors : Return(t, Err(error))

\* The conversion applied to any reqwest::Error.
ConvertError ==
    /\ \E error \in ReqwestErrors :
          converted' = Some([error |-> error, into |-> from(error)])
    /\ UNCHANGED <<clients, made, tasks, nExecute, nSent, rendered, ready>>

Next ==
    \/ \E c \in ClientIds : NewClient(c)
    \/ \E c \in ClientIds : WithBaseUrl(c)
    \/ \E t \in TaskIds, c \in ClientIds : DesignVoice(t, c)
    \/ \E t \in TaskIds, c \in ClientIds : CreateVoice(t, c)
    \/ \E t \in TaskIds : SetOutputFormat(t)
    \/ \E t \in TaskIds : SetText(t)
    \/ \E t \in TaskIds : SetModel(t)
    \/ \E t \in TaskIds : SetAutoGenerateText(t)
    \/ \E t \in TaskIds : SetLoudness(t)
    \/ \E t \in TaskIds : SetSeed(t)
    \/ \E t \in TaskIds : SetGuidanceScale(t)
    \/ \E t \in TaskIds : SetStreamPreviews(t)
    \/ \E t \in TaskIds : SetRemixingSessionId(t)
    \/ \E t \in TaskIds : SetRemixingSessionIterationId(t)
    \/ \E t \in TaskIds : SetQuality(t)
    \/ \E t \in TaskIds : SetReferenceAudioBase64(t)
    \/ \E t \in TaskIds : SetPromptStrength(t)
    \/ \E t \in TaskIds : SetLabels(t)
    \/ \E t \in TaskIds : SetPlayedNotSelectedVoiceIds(t)
    \/ \E t \in TaskIds : ExecuteDesignVoice(t)
    \/ \E t \in TaskIds : ExecuteCreateVoice(t)
    \/ \E t \in TaskIds : Respond(t)
    \/ \E t \in TaskIds : ReadBody(t)
    \/ \E t \in TaskIds : SendFails(t)

Spec == Init /\ [][Next]_vars

\* The error conversion alone, applied to every reqwest::Error of the model.
NextFrom == ConvertError

SpecFrom == Init /\ [][NextFrom]_vars

\* ---------------------------------------------------------------- concurrent calls

\* Two calls in flight at once, started from two clients that differ in key
\* and in base URL.
ConcTaskIds == {"t1", "t2"}

ConcClientIds == {"c1", "c2"}

ConcResponses ==
    { r \in Responses : r.body_ok /\ ~r.retry_after.some /\ r.status \in {200, 429} }

InitConc ==
    /\ clients = ("c1" :> Some(new("key-1")))
                 @@ ("c2" :> Some(with_base_url("key-2", "http://localhost:8080")))
    /\ made = ("c1" :> Some([ctor |-> "new", api_key |-> "key-1"]))
              @@ ("c2" :> Some([ctor |-> "with_base_url", api_key |-> "key-2",
                                base_url |-> "http://localhost:8080"]))
    /\ tasks = [t \in ConcTaskIds |-> IdleTask]
    /\ InitRest

\* send().await gives one of the responses of this specification.
RespondConc(t) == \E response \in ConcResponses : Receive(t, ResponseHead(response))

\* The body read of a call of this specification ends.
ReadBodyConc(t) == \E response \in ConcResponses : Return(t, Ok(response))

NextConc ==
    \/ \E t \in ConcTaskIds, c \in ConcClientIds : DesignVoice(t, c)
    \/ \E t \in ConcTaskIds, c \in ConcClientIds : CreateVoice(t, c)
    \/ \E t \in ConcTaskIds : SetModel(t)
    \/ \E t \in ConcTaskIds : SetLabels(t)
    \/ \E t \in ConcTaskIds : ExecuteDesignVoice(t)
    \/ \E t \in ConcTaskIds : ExecuteCreateVoice(t)
    \/ \E t \in ConcTaskIds : RespondConc(t)
    \/ \E t \in ConcTaskIds : ReadBodyConc(t)
    \/ \E t \in ConcTaskIds : SendFails(t)

SpecConc == InitConc /\ [][NextConc]_vars

\* ---------------------------------------------------------------- Display

\* Message texts carried by error values.
Messages ==
    {"", "Invalid voice ID", "Invalid API key", "Too many requests",
     "Insufficient credits", "Rate limit exceeded"}

DisplayStatuses == 400..410

\* Values of ElevenLabsTTVError.
ElevenLabsTTVErrors ==
    {[kind |-> "RequestError", source |-> e] : e \in SendErrors}
    \cup {[kind |-> "ApiError", status |-> s, message |-> m] :
              s \in DisplayStatuses, m \in Messages}
    \cup {[kind |-> "ParseError", source |-> DecodeError]}
    \cup {[kind |-> "AuthenticationError", message |-> m] : m \in Messages}
    \cup {[kind |-> "RateLimitError", retry_after |-> r, message |-> m] :
              r \in {None, Some(0), Some(30)}, m \in Messages}
    \cup {[kind |-> "QuotaExceededError", message |-> m] : m \in Messages}
    \cup {[kind |-> "ValidationError", message |-> m] : m \in Messages}

\* A rendering of ValidationError that leaves the message out.
FmtValidationWithoutMessage(self) ==
    CASE self.kind = "RequestError" -> "Request failed: " \o self.source.text
      [] self.kind = "ApiError" ->
            "API error (" \o ToString(self.status) \o "): " \o self.message
      [] self.kind = "ParseError" -> "Failed to parse response: " \o self.source.text
      [] self.kind = "AuthenticationError" -> "Authentication failed: " \o self.message
      [] self.kind = "RateLimitError" ->
            IF self.retry_after.some
            THEN "Rate limit exceeded (retry in " \o ToString(self.retry_after.val)
                    \o "s): " \o self.message
            ELSE "Rate limit exceeded: " \o self.message
      [] self.kind = "QuotaExceededError" -> "Quota exceeded: " \o self.message
      [] self.kind = "ValidationError" -> "Validation error"

\* impl fmt::Display for ElevenLabsTTVError
fmt(self) ==
    CASE self.kind = "RequestError" -> "Request failed: " \o self.source.text
      [] self.kind = "ApiError" ->
            "API error (" \o ToString(self.status) \o "): " \o self.message
      [] self.kind = "ParseError" -> "Failed to parse response: " \o self.source.text
      [] self.kind = "AuthenticationError" -> "Authentication failed: " \o self.message
      [] self.kind = "RateLimitError" ->
            IF self.retry_after.some
            THEN "Rate limit exceeded (retry in " \o ToString(self.retry_after.val)
                    \o "s): " \o self.message
            ELSE "Rate limit exceeded: " \o self.message
      [] self.kind = "QuotaExceededError" -> "Quota exceeded: " \o self.message
      [] self.kind = "ValidationError" -> "Validation error: " \o self.message

\* error.to_string() on an error value.
RenderError ==
    /\ \E error \in ElevenLabsTTVErrors :
          rendered' = Some([error |-> error, text |-> fmt(error)])
    /\ UNCHANGED <<clients, made, tasks, nExecute, nSent, converted, ready>>

NextDisplay == RenderError

SpecDisplay == Init /\ [][NextDisplay]_vars

\* ---------------------------------------------------------------- is_ready

\* Values of VoiceVerification.
VoiceVerifications ==
    [requires_verification : BOOLEAN,
     is_verified : BOOLEAN,
     verification_failures : {<< >>, <<"too noisy">>},
     verification_attempts_count : {0, 3},
     language : {None, Some("en")},
     verification_attempts : {None}]

\* Values of TTVCreateVoiceResponse, with the fields DeserializeCreateVoiceResponse
\* keeps.
CreateVoiceResponses ==
    [voice_id : {"v1"},
     name : {None, Some("Jack")},
     voice_verification : {None} \cup {Some(v) : v \in VoiceVerifications},
     is_legacy : {None, Some(TRUE)},
     is_mixed : {None}]

\* A readiness test that looks at is_verified alone.
IsReadyWhenVerified(self) ==
    IF self.voice_verification.some
    THEN LET verification == self.voice_verification.val IN
         verification.is_verified
    ELSE TRUE

\* TTVCreateVoiceResponse::is_ready
is_ready(self) ==
    IF self.voice_verification.some
    THEN LET verification == self.voice_verification.val IN
         ~verification.requires_verification \/ verification.is_verified
    ELSE TRUE

\* voice.is_ready() on a created voice.
CallIsReady ==
    /\ \E voice \in CreateVoiceResponses :
          ready' = Some([voice |-> voice, result |-> is_ready(voice)])
    /\ UNCHANGED <<clients, made, tasks, nExecute, nSent, converted, rendered>>

NextReady == CallIsReady

SpecReady == Init /\ [][NextReady]_vars

\* ---------------------------------------------------------------- properties

DesignOptionalFields ==
    { "output_format", "model_id", "text", "auto_generate_text", "loudness", "seed",
      "guidance_scale", "stream_previews", "remixing_session_id",
      "remixing_session_iteration_id", "quality", "reference_audio_base64",
      "prompt_strength" }

CreateOptionalFields == {"labels", "played_not_selected_voice_ids"}

\* The task has finalized its builder: the request is built and posted.
Finalized(t) == tasks[t].pc \in {"awaiting", "reading", "done"}

FinalizedDesign(t) == Finalized(t) /\ tasks[t].kind = "design"

FinalizedCreate(t) == Finalized(t) /\ tasks[t].kind = "create"

\* The call of the task has returned after a response was obtained.
Responded(t) == tasks[t].pc = "done" /\ tasks[t].sent.ok

\* C1: for a Design Voice call the output_format query parameter of the URL is
\* the value set on the builder when one was set, and "mp3_44100_128" only
\* when none was set.
C1_ExplicitOutputFormatInUrl ==
    \A t \in TaskIds :
        FinalizedDesign(t) =>
            QueryParam(tasks[t].post.url, "output_format") =
                IF tasks[t].builder.output_format.some
                THEN tasks[t].builder.output_format
                ELSE Some("mp3_44100_128")

\* C2: a call that gets a response with a non-success status returns
\* AuthenticationError for 401, QuotaExceededError for 402 and RateLimitError
\* for 429.
C2_NonSuccessIsClassified ==
    \A t \in TaskIds :
        (Responded(t) /\ ~(tasks[t].sent.val.status \in 200..299)) =>
            /\ ~tasks[t].result.ok
            /\ tasks[t].sent.val.status = 401 =>
                   tasks[t].result.err.kind = "AuthenticationError"
            /\ tasks[t].sent.val.status = 402 =>
                   tasks[t].result.err.kind = "QuotaExceededError"
            /\ tasks[t].sent.val.status = 429 =>
                   tasks[t].result.err.kind = "RateLimitError"

\* C3: an optional field that is absent in the finalized request has no key
\* in the serialized JSON body (it is not emitted as null).
C3_AbsentFieldsOmitted ==
    \A t \in TaskIds :
        Finalized(t) =>
            \A f \in (IF tasks[t].kind = "design" THEN DesignOptionalFields
                      ELSE CreateOptionalFields) :
                ~tasks[t].request[f].some => f \notin DOMAIN tasks[t].post.json

\* C4, as claimed: every finalized Design Voice request carries an explicit
\* text or auto_generate_text = true, whatever setters were called.
C4_TextOrAutoGenerateAlways ==
    \A t \in TaskIds :
        FinalizedDesign(t) =>
            \/ tasks[t].request.text.some
            \/ tasks[t].request.auto_generate_text = Some(TRUE)

\* C4, amended: a finalized Design Voice request carries an explicit text or
\* auto_generate_text = true except when the builder's auto_generate_text was
\* last set to false and no text was set; the request then carries
\* auto_generate_text = false and no text.
C4_TextOrAutoGenerateUnlessExplicitFalse ==
    \A t \in TaskIds :
        FinalizedDesign(t) =>
            IF tasks[t].builder.auto_generate_text = Some(FALSE)
               /\ ~tasks[t].builder.text.some
            THEN /\ tasks[t].request.auto_generate_text = Some(FALSE)
                 /\ ~tasks[t].request.text.some
            ELSE \/ tasks[t].request.text.some
                 \/ tasks[t].request.auto_generate_text = Some(TRUE)

C4_Witness ==
    \E t \in TaskIds :
        /\ FinalizedDesign(t)
        /\ tasks[t].builder.auto_generate_text = Some(FALSE)
        /\ ~tasks[t].builder.text.some
        /\ tasks[t].request.auto_generate_text = Some(FALSE)

\* C5: when auto_generate_text was not set on the builder, the finalized
\* auto_generate_text is true if and only if no text was set, and stays unset
\* when a text was set.
C5_AutoGenerateDefault ==
    \A t \in TaskIds :
        (FinalizedDesign(t) /\ ~tasks[t].builder.auto_generate_text.some) =>
            /\ tasks[t].request.auto_generate_text = Some(TRUE)
                  <=> ~tasks[t].builder.text.some
            /\ tasks[t].builder.text.some =>
                  ~tasks[t].request.auto_generate_text.some

C5_Witness ==
    \E t \in TaskIds :
        /\ FinalizedDesign(t)
        /\ ~tasks[t].builder.auto_generate_text.some
        /\ tasks[t].builder.text.some
        /\ ~tasks[t].request.auto_generate_text.some

\* C6: a Design Voice request finalized with no setter called has loudness
\* 0.5, guidance_scale 5, stream_previews false, model_id
\* "eleven_multilingual_ttv_v2", auto_generate_text true, every other optional
\* field absent, and output_format "mp3_44100_128" in the URL.
C6_DefaultsWithNoOverrides ==
    \A t \in TaskIds :
        (FinalizedDesign(t)
         /\ \A f \in DesignOptionalFields : ~tasks[t].builder[f].some) =>
            /\ tasks[t].request =
                 [ voice_description |-> tasks[t].builder.voice_description,
                   model_id |-> Some("eleven_multilingual_ttv_v2"),
                   output_format |-> None,
                   text |-> None,
                   auto_generate_text |-> Some(TRUE),
                   loudness |-> Some("0.5"),
                   seed |-> None,
                   guidance_scale |-> Some(5),
                   stream_previews |-> Some(FALSE),
                   remixing_session_id |-> None,
                   remixing_session_iteration_id |-> None,
                   quality |-> None,
                   reference_audio_base64 |-> None,
                   prompt_strength |-> None ]
            /\ QueryParam(tasks[t].post.url, "output_format") = Some("mp3_44100_128")

C6_Witness ==
    \E t \in TaskIds :
        /\ FinalizedDesign(t)
        /\ tasks[t].nset = 0
        /\ tasks[t].request.loudness = Some("0.5")

\* C7: every optional field set on a builder has, in the finalized request,
\* the value it was set to (output_format either in the request or in the
\* URL's query).
C7_SetThenFinalizeKeepsValue ==
    \A t \in TaskIds :
        Finalized(t) =>
            \A f \in (IF tasks[t].kind = "design" THEN DesignOptionalFields
                      ELSE CreateOptionalFields) :
                tasks[t].builder[f].some =>
                    \/ tasks[t].request[f] = tasks[t].builder[f]
                    \/ /\ f = "output_format"
                       /\ QueryParam(tasks[t].post.url, "output_format") =
                              tasks[t].builder[f]

\* The statuses the claims single out.
OtherNonSuccess(status) ==
    ~(status \in 200..299) /\ status \notin {401, 402, 429}

\* C8, as claimed: for a non-2xx status other than 401, 402 and 429 the call
\* returns ApiError with the response's status and, as message, the body the
\* server sent.
C8_ApiErrorCarriesSentBody ==
    \A t \in TaskIds :
        (Responded(t) /\ OtherNonSuccess(tasks[t].sent.val.status)) =>
            tasks[t].result =
                Err([ kind |-> "ApiError",
                      status |-> tasks[t].sent.val.status,
                      message |-> tasks[t].sent.val.body ])

\* C8, amended: the message is the body text when the body can be read and
\* the empty string when reading it fails.
C8_ApiErrorCarriesReadBody ==
    \A t \in TaskIds :
        (Responded(t) /\ OtherNonSuccess(tasks[t].sent.val.status)) =>
            tasks[t].result =
                Err([ kind |-> "ApiError",
                      status |-> tasks[t].sent.val.status,
                      message |-> IF tasks[t].sent.val.body_ok
                                  THEN tasks[t].sent.val.body
                                  ELSE "" ])

C8_Witness ==
    \E t \in TaskIds :
        /\ Responded(t)
        /\ tasks[t].sent.val.status = 500
        /\ tasks[t].sent.val.body_ok
        /\ tasks[t].result.err.kind = "ApiError"
        /\ tasks[t].result.err.message = "Too many requests"

\* C9: an error classified as RateLimitError holds the server's Retry-After
\* value when the server sent one, and none only when the server sent none.
C9_RetryAfterFromServer ==
    (converted.some /\ converted.val.into.kind = "RateLimitError") =>
        converted.val.into.retry_after = converted.val.error.retry_after

\* The body of a response decodes into the shape the call of this kind expects.
DecodesAs(kind, response) ==
    /\ response.body_ok
    /\ response.body = (IF kind = "design" THEN DesignOkBody ELSE CreateOkBody)

\* C10: a call that gets a 2xx response whose body does not decode into the
\* expected shape returns ParseError wrapping the decode error: neither a
\* success value nor ApiError.
C10_UndecodableSuccessIsParseError ==
    \A t \in TaskIds :
        (Responded(t)
         /\ tasks[t].sent.val.status \in 200..299
         /\ ~DecodesAs(tasks[t].kind, tasks[t].sent.val)) =>
            /\ ~tasks[t].result.ok
            /\ tasks[t].result.err.kind = "ParseError"
            /\ tasks[t].result.err.source \in {DecodeError, BodyReadError}

C10_Witness ==
    \E t \in TaskIds :
        /\ Responded(t)
        /\ tasks[t].kind = "design"
        /\ tasks[t].sent.val.status = 200
        /\ tasks[t].sent.val.body = CreateOkBody
        /\ tasks[t].result.err.kind = "ParseError"

\* C11: when send() fails, so that no response and no status is obtained, the
\* call returns RequestError wrapping the transport error, for Design Voice
\* and for Create Voice.
C11_SendFailureIsRequestError ==
    \A t \in DOMAIN tasks :
        (tasks[t].pc = "done" /\ ~tasks[t].sent.ok) =>
            tasks[t].result =
                Err([kind |-> "RequestError", source |-> tasks[t].sent.err])

C11_Witness ==
    /\ \E t \in DOMAIN tasks :
          /\ tasks[t].pc = "done"
          /\ tasks[t].kind = "create"
          /\ ~tasks[t].sent.ok
          /\ tasks[t].result.err.kind = "RequestError"
    /\ nExecute = 2

\* The error kind the conversion is to give for a status, or for none.
KindForStatus(status) ==
    IF ~status.some THEN "RequestError"
    ELSE IF status.val = 401 THEN "AuthenticationError"
    ELSE IF status.val = 402 THEN "QuotaExceededError"
    ELSE IF status.val = 429 THEN "RateLimitError"
    ELSE "ApiError"

\* C12: the kind of the converted error is decided by the status alone: 401
\* gives AuthenticationError, 402 QuotaExceededError, 429 RateLimitError, any
\* other status ApiError carrying that status, and no status RequestError.
C12_KindDecidedByStatus ==
    converted.some =>
        /\ converted.val.into.kind = KindForStatus(converted.val.error.status)
        /\ converted.val.into.kind = "ApiError" =>
               converted.val.into.status = converted.val.error.status.val

C12_Witness ==
    /\ converted.some
    /\ converted.val.error.status = Some(402)
    /\ converted.val.into.kind = "QuotaExceededError"

\* The API root of the client the builder of task t was started from: the
\* production root for a client made with new, the base URL passed to
\* with_base_url otherwise.
BaseOf(t) ==
    LET c == CHOOSE c \in DOMAIN clients : clients[c] = Some(tasks[t].builder.client)
    IN  IF made[c].val.ctor = "new" THEN "https://api.elevenlabs.io/v1"
        ELSE made[c].val.base_url

\* C13: a Design Voice request goes to {base}/text-to-voice/design?output_format=<fmt>
\* and a Create Voice request to {base}/text-to-voice, {base} being the
\* production root for a client made with new and the supplied base URL for
\* one made with with_base_url.
C13_TargetUrls ==
    \A t \in DOMAIN tasks :
        Finalized(t) =>
            /\ \E c \in DOMAIN clients : clients[c] = Some(tasks[t].builder.client)
            /\ tasks[t].kind = "design" =>
                 \E format \in OutputFormats :
                    UrlText(tasks[t].post.url) =
                        BaseOf(t) \o "/text-to-voice/design?output_format=" \o format
            /\ tasks[t].kind = "create" =>
                 UrlText(tasks[t].post.url) = BaseOf(t) \o "/text-to-voice"

C13_Witness ==
    \E t \in DOMAIN tasks :
        /\ FinalizedDesign(t)
        /\ UrlText(tasks[t].post.url) =
              "http://localhost:8080/text-to-voice/design?output_format=mp3_44100_128"

\* The optional fields of the builder of a kind.
OptionalFieldsOf(kind) ==
    IF kind = "design" THEN DesignOptionalFields ELSE CreateOptionalFields

\* The builder a setter returns, by the field the setter is for.
SetterResult(f, self, v) ==
    CASE f = "output_format" -> output_format(self, v)
      [] f = "text" -> text(self, v)
      [] f = "model_id" -> model(self, v)
      [] f = "auto_generate_text" -> auto_generate_text(self, v)
      [] f = "loudness" -> loudness(self, v)
      [] f = "seed" -> seed(self, v)
      [] f = "guidance_scale" -> guidance_scale(self, v)
      [] f = "stream_previews" -> stream_previews(self, v)
      [] f = "remixing_session_id" -> remixing_session_id(self, v)
      [] f = "remixing_session_iteration_id" -> remixing_session_iteration_id(self, v)
      [] f = "quality" -> quality(self, v)
      [] f = "reference_audio_base64" -> reference_audio_base64(self, v)
      [] f = "prompt_strength" -> prompt_strength(self, v)
      [] f = "labels" -> labels(self, v)
      [] f = "played_not_selected_voice_ids" -> played_not_selected_voice_ids(self, v)

\* The values a setter is called with, by field.
SetterValues(f) ==
    CASE f = "output_format" -> OutputFormats
      [] f = "text" -> Texts
      [] f = "model_id" -> ModelIds
      [] f = "auto_generate_text" -> BOOLEAN
      [] f = "loudness" -> Loudnesses
      [] f = "seed" -> Seeds
      [] f = "guidance_scale" -> GuidanceScales
      [] f = "stream_previews" -> BOOLEAN
      [] f = "remixing_session_id" -> SessionIds
      [] f = "remixing_session_iteration_id" -> IterationIds
      [] f = "quality" -> Qualities
      [] f = "reference_audio_base64" -> ReferenceAudios
      [] f = "prompt_strength" -> PromptStrengths
      [] f = "labels" -> LabelTexts
      [] f = "played_not_selected_voice_ids" -> PlayedIds

\* The step in which task t calls the setter of field f with value v.
SetterStep(t, f, v) ==
    SetterCall(t, tasks[t].kind, SetterResult(f, tasks[t].builder, v))

\* C14: a setter call changes only its own field: after it the field holds
\* the value passed, and the client, the required fields and every other
\* optional field of the builder are as before the call.
C14_SetterChangesOnlyItsField ==
    [][ \A t \in DOMAIN tasks :
          tasks[t].pc = "building" =>
            \A f \in OptionalFieldsOf(tasks[t].kind) : \A v \in SetterValues(f) :
                SetterStep(t, f, v) =>
                    /\ DOMAIN tasks'[t].builder = DOMAIN tasks[t].builder
                    /\ tasks'[t].builder[f] = Some(v)
                    /\ \A g \in DOMAIN tasks[t].builder \ {f} :
                          tasks'[t].builder[g] = tasks[t].builder[g] ]_vars

C14_Witness ==
    \E t \in DOMAIN tasks :
        /\ tasks[t].pc = "building"
        /\ tasks[t].kind = "design"
        /\ tasks[t].nset = 1
        /\ tasks[t].builder.voice_description = "X"
        /\ tasks[t].builder.model_id = Some("model-456")
        /\ \A g \in DesignOptionalFields \ {"model_id"} : ~tasks[t].builder[g].some

\* C16: the number of HTTP requests sent equals the number of finalize
\* (execute) calls made: constructing a client, starting a builder and calling
\* setters send nothing, and each finalize sends one POST whatever the
\* response is.
C16_OneRequestPerFinalize == nSent = nExecute

C16_Witness ==
    /\ nExecute = 2
    /\ nSent = 2
    /\ \E t \in DOMAIN tasks :
          /\ tasks[t].pc = "done"
          /\ tasks[t].sent.ok
          /\ tasks[t].sent.val.status = 429

\* The fields the documentation gives a range or a condition for.
DocumentedFields ==
    {"loudness", "quality", "guidance_scale", "prompt_strength", "text",
     "reference_audio_base64", "model_id"}

\* C17: no finalize rejects input locally and no call returns
\* ValidationError: whatever values were set for loudness, quality,
\* guidance_scale, prompt_strength, text, reference_audio_base64 and the model,
\* the request is posted and carries them unchanged.
C17_NoLocalValidation ==
    \A t \in DOMAIN tasks :
        /\ (Finalized(t) /\ tasks[t].kind = "design") =>
              /\ tasks[t].post # None
              /\ \A f \in DocumentedFields :
                    tasks[t].builder[f].some =>
                        /\ tasks[t].request[f] = tasks[t].builder[f]
                        /\ tasks[t].post.json[f] =
                              [t |-> "value", v |-> tasks[t].builder[f].val]
        /\ (tasks[t].pc = "done" /\ ~tasks[t].result.ok) =>
              tasks[t].result.err.kind # "ValidationError"

C17_Witness ==
    \E t \in DOMAIN tasks :
        /\ FinalizedDesign(t)
        /\ tasks[t].builder.loudness = Some("2.5")
        /\ tasks[t].builder.prompt_strength = Some("7.0")
        /\ tasks[t].builder.reference_audio_base64 = None
        /\ tasks[t].post.json.loudness = [t |-> "value", v |-> "2.5"]
        /\ tasks[t].post.json.prompt_strength = [t |-> "value", v |-> "7.0"]

\* C18: while a builder is being configured, an optional field that is set
\* stays set, a setter call leaves in its field the value passed to it, and a
\* field changes only by a call of its own setter, so that it holds the value
\* passed to the most recent call.
C18_SetFieldsStaySetToLastValue ==
    [][ \A t \in DOMAIN tasks :
          (tasks[t].pc = "building" /\ tasks'[t].pc = "building") =>
            \A f \in OptionalFieldsOf(tasks[t].kind) :
                /\ tasks[t].builder[f].some => tasks'[t].builder[f].some
                /\ \A v \in SetterValues(f) :
                      SetterStep(t, f, v) => tasks'[t].builder[f] = Some(v)
                /\ tasks'[t].builder[f] # tasks[t].builder[f] =>
                      \E v \in SetterValues(f) : SetterStep(t, f, v) ]_vars

C18_Witness ==
    \E t \in DOMAIN tasks :
        /\ tasks[t].pc = "building"
        /\ tasks[t].kind = "design"
        /\ tasks[t].nset = 2
        /\ tasks[t].builder.text = Some("short")
        /\ \A g \in DesignOptionalFields \ {"text"} : ~tasks[t].builder[g].some

\* str::contains: needle occurs in haystack as a run of consecutive characters.
Contains(haystack, needle) ==
    \/ Len(needle) = 0
    \/ \E i \in 1..(Len(haystack) - Len(needle) + 1) :
          SubSeq(haystack, i, i + Len(needle) - 1) = needle

\* The fixed label of each variant.
Label(kind) ==
    CASE kind = "RequestError" -> "Request failed"
      [] kind = "ApiError" -> "API error"
      [] kind = "ParseError" -> "Failed to parse response"
      [] kind = "AuthenticationError" -> "Authentication failed"
      [] kind = "RateLimitError" -> "Rate limit exceeded"
      [] kind = "QuotaExceededError" -> "Quota exceeded"
      [] kind = "ValidationError" -> "Validation error"

\* C15: the Display rendering of an error value contains the fixed label of
\* its variant and, for every variant that carries a message text, that
\* message.
C15_DisplayHasLabelAndMessage ==
    rendered.some =>
        LET error == rendered.val.error
            text_ == rendered.val.text
        IN  /\ Contains(text_, Label(error.kind))
            /\ "message" \in DOMAIN error => Contains(text_, error.message)

C15_Witness ==
    /\ rendered.some
    /\ rendered.val.error = [kind |-> "ValidationError", message |-> "Invalid voice ID"]
    /\ Contains(rendered.val.text, "Validation error")
    /\ Contains(rendered.val.text, "Invalid voice ID")
    /\ ~Contains(rendered.val.text, "Invalid API key")

\* C20: is_ready is false exactly when voice_verification is present with
\* requires_verification true and is_verified false; it is true otherwise,
\* also when voice_verification is absent.
C20_IsReadyUnlessVerificationPending ==
    ready.some =>
        LET voice == ready.val.voice IN
        (ready.val.result = FALSE) <=>
            /\ voice.voice_verification.some
            /\ voice.voice_verification.val.requires_verification = TRUE
            /\ voice.voice_verification.val.is_verified = FALSE

C20_Witness ==
    /\ ready.some
    /\ ready.val.voice.voice_verification.some
    /\ ready.val.voice.voice_verification.val.requires_verification
    /\ ~ready.val.voice.voice_verification.val.is_verified
    /\ ready.val.result = FALSE

\* The request of a finalized task carries the key and the base URL of the
\* client its builder holds and the values of its own builder.
OwnRequest(t) ==
    LET self == tasks[t].builder
        post == tasks[t].post
    IN  /\ post.headers["xi-api-key"] = self.client.api_key
        /\ post.url.path =
              self.client.base_url \o
                  (IF tasks[t].kind = "design" THEN "/text-to-voice/design"
                                               ELSE "/text-to-voice")
        /\ post.json.voice_description = [t |-> "value", v |-> self.voice_description]
        /\ \A f \in OptionalFieldsOf(tasks[t].kind) \ {"output_format"} :
              self[f].some => post.json[f] = [t |-> "value", v |-> self[f].val]

\* The result of a returned call follows from what its own send() gave.
OwnResult(t) ==
    LET sent == tasks[t].sent
        result == tasks[t].result
    IN  /\ sent.ok => ResponseHead(sent.val) = tasks[t].response
        /\ result.ok <=>
              (sent.ok /\ is_success(sent.val.status) /\ DecodesAs(tasks[t].kind, sent.val))
        /\ (sent.ok /\ ~is_success(sent.val.status)) =>
              (result.err.kind = "ApiError" /\ result.err.status = sent.val.status)
        /\ ~sent.ok => result.err = [kind |-> "RequestError", source |-> sent.err]

\* C19: for any interleaving of calls started from the same client or from
\* different clients, each request carries the API key and base URL of the
\* client that started its builder and the parameters of its own builder only,
\* each result is determined by the call's own response, and no operation
\* changes a client's api_key or base_url.
C19_CallsAreIsolated ==
    /\ [](\A t \in DOMAIN tasks :
            /\ Finalized(t) => OwnRequest(t)
            /\ tasks[t].pc = "done" => OwnResult(t))
    /\ [][ /\ clients' = clients
           /\ \A t \in DOMAIN tasks :
                /\ \A c \in DOMAIN clients :
                      (DesignVoice(t, c) \/ CreateVoice(t, c)) =>
                          tasks'[t].builder.client = clients[c].val
                /\ (tasks[t].pc # "idle" /\ tasks'[t].pc \notin {"idle", "building"}) =>
                      tasks'[t].builder.client = tasks[t].builder.client
                /\ (tasks[t].pc = "building" /\ tasks'[t].pc = "building"
                    /\ tasks'[t].nset # 0) =>
                      tasks'[t].builder.client = tasks[t].builder.client
                /\ tasks'[t] # tasks[t] =>
                      \A u \in DOMAIN tasks \ {t} : tasks'[u] = tasks[u] ]_vars

C19_Witness ==
    /\ DOMAIN tasks = ConcTaskIds
    /\ tasks["t1"].pc = "reading"
    /\ tasks["t1"].response.status = 200
    /\ tasks["t2"].pc = "done"
    /\ tasks["t1"].kind = "design"
    /\ tasks["t2"].kind = "create"
    /\ tasks["t1"].post.headers["xi-api-key"] = "key-1"
    /\ tasks["t2"].post.headers["xi-api-key"] = "key-2"
    /\ tasks["t2"].post.url.path = "http://localhost:8080/text-to-voice"
    /\ tasks["t2"].sent.ok
    /\ tasks["t2"].sent.val.status = 429

====
